---- MODULE Spec2Model ----
(***************************************************************************)
(* Constrained-value types of catalyser: the bounded integers of           *)
(* stdx/primitive_number.rs, the validated strings of serdex/string.rs and *)
(* the non-empty collections of serdex/collection.rs, driven by a client   *)
(* that holds one wrapper at a time and calls the public operations.       *)
(***************************************************************************)
EXTENDS Integers, Sequences, FiniteSets, TLC

\* ------------------------------------------------------------------ bounds

\* Integer inputs and type-level bounds are drawn from -MaxVal..MaxVal
\* (plus the extremes of the primitive type).
MaxVal == 1

\* Strings given to the constructors have at most MaxStrLen characters.
MaxStrLen == 3

\* Containers given to the constructors have at most MaxLen elements.
MaxLen == 2

\* Finite floating-point inputs and bounds are the whole numbers of
\* -MaxFloat..MaxFloat, next to the infinities and NaN.
MaxFloat == 1

\* repeat is called with at most MaxTimes times.
MaxTimes == 15

\* The values handed to the scope functions are 0..MaxScopeVal.
MaxScopeVal == 3

\* A chain value.also(f).also(g)... has at most MaxChain calls.
MaxChain == 3

\* The texts given to trim_margin_with have at most MaxTextLen characters.
MaxTextLen == 5

\* ------------------------------------------------------------ result values

Ok(x) == [ok |-> TRUE, val |-> x]

Err(e) == [ok |-> FALSE, err |-> e]

\* A tuple struct with one field: Self(num), ValidatedString(input, PhantomData),
\* Self(collection).
Wrap(v) == [inner |-> v]

\* A binding that holds no wrapper (never assigned, or moved out of).
None == [none |-> TRUE]

\* ------------------------------------------------------------- error enums

High(min, max, value) == [variant |-> "High", fields |-> <<min, max, value>>]

Low(min, max, value) == [variant |-> "Low", fields |-> <<min, max, value>>]

StringEmpty == [variant |-> "Empty", fields |-> <<>>]

Blank(value) == [variant |-> "Blank", fields |-> <<value>>]

SequenceEmpty == [variant |-> "Empty", fields |-> <<>>]

\* --------------------------------------------------------- bounded integers

\* Two of the twelve generated families, one signed and one unsigned: the
\* families differ only in the primitive they wrap.
PrimTypes == {"i8", "u8"}

TypeMin(ty) == IF ty = "i8" THEN -(2 ^ 7) ELSE 0

TypeMax(ty) == IF ty = "i8" THEN (2 ^ 7) - 1 ELSE (2 ^ 8) - 1

InType(ty, n) == TypeMin(ty) <= n /\ n <= TypeMax(ty)

\* Values of the primitive handed to the constructors.
PrimVals(ty) == {n \in (-MaxVal..MaxVal) \cup {TypeMin(ty), TypeMax(ty)} : InType(ty, n)}

\* Values used as the const generics MIN and MAX (MIN > MAX is expressible).
BoundVals(ty) == {n \in -MaxVal..MaxVal : InType(ty, n)}

\* new testing the upper bound before the lower one.
BoundedNum_new_highfirst(MIN, MAX, num) ==
    IF num > MAX THEN Err(High(MIN, MAX, num))
    ELSE IF MIN > num THEN Err(Low(MIN, MAX, num))
    ELSE Ok(Wrap(num))

\* new with the bounds excluded.
BoundedNum_new_strict(MIN, MAX, num) ==
    IF MIN >= num THEN Err(Low(MIN, MAX, num))
    ELSE IF num >= MAX THEN Err(High(MIN, MAX, num))
    ELSE Ok(Wrap(num))

\* new clamping an out-of-range value to the nearer bound.
BoundedNum_new_clamp(MIN, MAX, num) ==
    IF MIN > num THEN Ok(Wrap(MIN))
    ELSE IF num > MAX THEN Ok(Wrap(MAX))
    ELSE Ok(Wrap(num))

\* new building its errors from (MAX, MIN, num).
BoundedNum_new_swapped(MIN, MAX, num) ==
    IF MIN > num THEN Err(Low(MAX, MIN, num))
    ELSE IF num > MAX THEN Err(High(MAX, MIN, num))
    ELSE Ok(Wrap(num))

\* generate_bounded_num!::new
BoundedNum_new(MIN, MAX, num) ==
    IF MIN > num THEN Err(Low(MIN, MAX, num))
    ELSE IF num > MAX THEN Err(High(MIN, MAX, num))
    ELSE Ok(Wrap(num))

\* new_unchecked asserting the range.
BoundedNum_new_unchecked_checked(MIN, MAX, num) ==
    IF MIN > num \/ num > MAX THEN [panic |-> TRUE] ELSE Wrap(num)

BoundedNum_new_unchecked(MIN, MAX, num) == Wrap(num)

BoundedNum_into_inner(self) == self.inner

\* ---------------------------------------------------------------- strings

\* One ordinary character and two whitespace characters.
Chars == {"a", " ", "\t"}

Strings == UNION {[1..k -> Chars] : k \in 0..MaxStrLen}

\* char::is_whitespace on the characters above (and the other ASCII blanks).
is_whitespace(c) == c \in {" ", "\t", "\n", "\r"}

is_empty(s) == Len(s) = 0

RECURSIVE trim_start(_)
trim_start(s) ==
    IF Len(s) = 0 THEN s
    ELSE IF is_whitespace(Head(s)) THEN trim_start(Tail(s))
    ELSE s

RECURSIVE trim_end(_)
trim_end(s) ==
    IF Len(s) = 0 THEN s
    ELSE IF is_whitespace(s[Len(s)]) THEN trim_end(SubSeq(s, 1, Len(s) - 1))
    ELSE s

trim(s) == trim_end(trim_start(s))

to_string(s) == s

\* The non-empty validator wrapping the trimmed text.
NonEmptyValidator_trimmed(input) ==
    IF is_empty(input) THEN Err(StringEmpty) ELSE Ok(Wrap(trim(input)))

\* The non-empty validator testing the trimmed text.
NonEmptyValidator_blankcheck(input) ==
    IF is_empty(trim(input)) THEN Err(StringEmpty) ELSE Ok(Wrap(input))

NonEmptyValidator_validate_and_create(input) ==
    IF is_empty(input) THEN Err(StringEmpty) ELSE Ok(Wrap(input))

\* The non-blank validator letting the empty string through.
NonBlankValidator_nonempty_only(input) ==
    IF ~is_empty(input) /\ is_empty(trim(input))
    THEN Err(Blank(to_string(input)))
    ELSE Ok(Wrap(input))

\* The non-blank validator taking the space for the only whitespace.
NonBlankValidator_spaces_only(input) ==
    IF \A i \in 1..Len(input) : input[i] = " "
    THEN Err(Blank(to_string(input)))
    ELSE Ok(Wrap(input))

\* The non-blank validator checking emptiness first and reporting the trimmed text.
NonBlankValidator_delegating(input) ==
    IF is_empty(input) THEN Err(StringEmpty)
    ELSE IF is_empty(trim(input)) THEN Err(Blank(to_string(trim(input))))
    ELSE Ok(Wrap(input))

NonBlankValidator_validate_and_create(input) ==
    IF is_empty(trim(input)) THEN Err(Blank(to_string(input))) ELSE Ok(Wrap(input))

Validators == {"NonEmptyValidator", "NonBlankValidator"}

\* T::validate_and_create(string)
ValidatedString_new(validator, string) ==
    IF validator = "NonEmptyValidator"
    THEN NonEmptyValidator_validate_and_create(string)
    ELSE NonBlankValidator_validate_and_create(string)

ValidatedString_new_unchecked(validator, string) == Wrap(string)

ValidatedString_into_inner(self) == self.inner

\* ------------------------------------------------------------ collections

Shapes == {"Vec", "VecDeque", "LinkedList", "BTreeSet", "HashSet", "BTreeMap", "HashMap"}

SeqShapes == {"Vec", "VecDeque", "LinkedList"}

SetShapes == {"BTreeSet", "HashSet"}

MapShapes == {"BTreeMap", "HashMap"}

\* Elements, keys and values of the containers.
Elems == {1, 2}

\* Sequences are TLA+ sequences, sets are TLA+ sets, maps are functions from
\* their key set.
Containers(shape) ==
    IF shape \in SeqShapes THEN UNION {[1..k -> Elems] : k \in 0..MaxLen}
    ELSE IF shape \in SetShapes THEN {S \in SUBSET Elems : Cardinality(S) <= MaxLen}
    ELSE UNION {[K -> Elems] : K \in {S \in SUBSET Elems : Cardinality(S) <= MaxLen}}

RECURSIVE Ascending(_)
Ascending(S) ==
    IF S = {} THEN <<>>
    ELSE LET m == CHOOSE x \in S : \A y \in S : x <= y
         IN <<m>> \o Ascending(S \ {m})

Orderings(S) == {p \in [1..Cardinality(S) -> S] : \A i, j \in DOMAIN p : i # j => p[i] # p[j]}

\* The sequences collection.into_iter() can yield: one for the ordered shapes,
\* any order of the elements for the hashed ones.
into_iter(shape, c) ==
    IF shape \in SeqShapes THEN {c}
    ELSE IF shape = "BTreeSet" THEN {Ascending(c)}
    ELSE IF shape = "HashSet" THEN Orderings(c)
    ELSE IF shape = "BTreeMap"
    THEN {[i \in 1..Cardinality(DOMAIN c) |-> <<Ascending(DOMAIN c)[i], c[Ascending(DOMAIN c)[i]]>>]}
    ELSE {[i \in DOMAIN p |-> <<p[i], c[p[i]]>>] : p \in Orderings(DOMAIN c)}

clone(x) == x

\* Iterator::next().is_none()
next_is_none(iter) == Len(iter) = 0

\* new asking the iterator for two elements.
NonEmptyCollection_new_atleasttwo(collection, iter) ==
    IF Len(iter) < 2 THEN Err(SequenceEmpty) ELSE Ok(Wrap(collection))

\* iter is the iteration of collection.clone() that into_iter() produced.
NonEmptyCollection_new(collection, iter) ==
    IF next_is_none(iter) THEN Err(SequenceEmpty) ELSE Ok(Wrap(collection))

NonEmptyCollection_new_unchecked(collection) == Wrap(collection)

NonEmptyCollection_into_inner(self) == self.inner

\* ------------------------------------------------------- the wrapper types

\* The wrapper type the client program instantiates: a bounded integer with its
\* primitive and const generics, a validated string with its validator, or a
\* non-empty collection with its container.
NumTypes ==
    UNION {{[fam |-> "num", ty |-> ty, MIN |-> mn, MAX |-> mx] :
                mn \in BoundVals(ty), mx \in BoundVals(ty)} : ty \in PrimTypes}

StrTypes == {[fam |-> "str", validator |-> v] : v \in Validators}

CollTypes == {[fam |-> "coll", shape |-> sh] : sh \in Shapes}

Types == NumTypes \cup StrTypes \cup CollTypes

\* Raw values of the inner type.
Inputs(t) ==
    IF t.fam = "num" THEN PrimVals(t.ty)
    ELSE IF t.fam = "str" THEN Strings
    ELSE Containers(t.shape)

\* What the emptiness check of a collection iterates; nothing for the others.
Iterations(t, v) == IF t.fam = "coll" THEN into_iter(t.shape, clone(v)) ELSE {<<>>}

\* new whose emptiness check takes the first element out of the collection it
\* then wraps, instead of out of a clone.
new_consuming(t, v, iter) ==
    IF t.fam = "num" THEN BoundedNum_new(t.MIN, t.MAX, v)
    ELSE IF t.fam = "str" THEN ValidatedString_new(t.validator, v)
    ELSE IF next_is_none(iter) THEN Err(SequenceEmpty)
    ELSE IF t.shape \in SeqShapes THEN Ok(Wrap(Tail(v)))
    ELSE IF t.shape \in SetShapes THEN Ok(Wrap(v \ {iter[1]}))
    ELSE Ok(Wrap([k \in (DOMAIN v) \ {iter[1][1]} |-> v[k]]))

new(t, v, iter) ==
    IF t.fam = "num" THEN BoundedNum_new(t.MIN, t.MAX, v)
    ELSE IF t.fam = "str" THEN ValidatedString_new(t.validator, v)
    ELSE NonEmptyCollection_new(v, iter)

new_unchecked(t, v) ==
    IF t.fam = "num" THEN BoundedNum_new_unchecked(t.MIN, t.MAX, v)
    ELSE IF t.fam = "str" THEN ValidatedString_new_unchecked(t.validator, v)
    ELSE NonEmptyCollection_new_unchecked(v)

into_inner(t, self) ==
    IF t.fam = "num" THEN BoundedNum_into_inner(self)
    ELSE IF t.fam = "str" THEN ValidatedString_into_inner(self)
    ELSE NonEmptyCollection_into_inner(self)

\* ------------------------------------------------------- text and JSON values

\* Text is a sequence of pieces read in order: single characters, and the
\* literal parts of the format strings.
Digits == <<"0", "1", "2", "3", "4", "5", "6", "7", "8", "9">>

\* The grave accent of the Blank message, which a TLA+ string cannot hold.
Backtick == "GRAVE"

RECURSIVE fmt_unsigned(_)
fmt_unsigned(n) ==
    IF n < 10 THEN <<Digits[n + 1]>>
    ELSE fmt_unsigned(n \div 10) \o <<Digits[(n % 10) + 1]>>

\* Display of a primitive integer.
fmt_int(n) == IF n < 0 THEN <<"-">> \o fmt_unsigned(-n) ELSE fmt_unsigned(n)

\* Display of the errors naming the failure only, without value or range.
fmt_error_terse(t, e) ==
    IF t.fam = "num"
    THEN fmt_int(e.fields[3])
            \o <<IF e.variant = "High" THEN " is too high" ELSE " is too low">>
    ELSE IF t.fam = "str"
    THEN IF e.variant = "Empty" THEN <<"string is empty">> ELSE <<"string is blank">>
    ELSE <<"sequence is empty">>

\* Display of OutOfBoundsError, StringContentError and SequenceContentError.
fmt_error(t, e) ==
    IF t.fam = "num"
    THEN fmt_int(e.fields[3])
            \o <<IF e.variant = "High" THEN " is too high (range: " ELSE " is too low (range: ">>
            \o fmt_int(e.fields[1]) \o <<"..">> \o fmt_int(e.fields[2]) \o <<")">>
    ELSE IF t.fam = "str"
    THEN IF e.variant = "Empty" THEN <<"string is empty">>
         ELSE <<"string is blank (content: ", Backtick>> \o e.fields[1] \o <<Backtick, ")">>
    ELSE <<"sequence is empty">>

\* Display in the manner of derive(Debug): the type's name around the field.
fmt_debug(t, self) ==
    IF t.fam = "num" THEN <<"Bounded(">> \o fmt_int(self.inner) \o <<")">>
    ELSE <<"ValidatedString(", "QUOTE">> \o self.inner \o <<"QUOTE", ")">>

\* Display of a wrapper: self.0.fmt(f). The collection wrapper has none.
fmt(t, self) == IF t.fam = "num" THEN fmt_int(self.inner) ELSE self.inner

JNum(n) == [j |-> "num", n |-> n]

JStr(s) == [j |-> "str", s |-> s]

JArr(items) == [j |-> "arr", items |-> items]

\* entries: a sequence of <<key text, value>>
JObj(entries) == [j |-> "obj", entries |-> entries]

\* Serialize deriving the tuple struct's own form: a one-element array around
\* the inner value's serialization.
serialize_enveloped(t, self, order) ==
    JArr(<<IF t.fam = "num" THEN JNum(self.inner)
           ELSE IF t.fam = "str" THEN JStr(self.inner)
           ELSE IF t.shape \in MapShapes
           THEN JObj([i \in DOMAIN order |-> <<fmt_int(order[i][1]), order[i][2]>>])
           ELSE JArr(order)>>)

\* serde(transparent): the inner value's own serialization. order is the
\* iteration of the container (nothing for the scalar families).
serialize(t, self, order) ==
    IF t.fam = "num" THEN JNum(self.inner)
    ELSE IF t.fam = "str" THEN JStr(self.inner)
    ELSE IF t.shape \in MapShapes
    THEN JObj([i \in DOMAIN order |-> <<fmt_int(order[i][1]), order[i][2]>>])
    ELSE JArr(order)

\* The deserializer's own errors.
ParseError(msg) == [variant |-> "Parse", fields |-> <<msg>>]

\* custom keeping a fixed message instead of the error's Display text.
custom_generic(t, e) == [variant |-> "Custom", fields |-> << <<"invalid value">> >>]

\* D::Error::custom(err): a deserializer error made of the error's Display text.
custom(t, e) == [variant |-> "Custom", fields |-> <<fmt_error(t, e)>>]

\* A map key read back from its text.
parse_key(k) == CHOOSE n \in Elems \cup {0} : (n \in Elems /\ fmt_int(n) = k) \/ (n = 0 /\ \A m \in Elems : fmt_int(m) # k)

RECURSIVE collect_map(_)
collect_map(entries) ==
    IF Len(entries) = 0 THEN [k \in {} |-> 0]
    ELSE LET front == collect_map(SubSeq(entries, 1, Len(entries) - 1))
             e == entries[Len(entries)]
         IN [k \in (DOMAIN front) \cup {parse_key(e[1])} |->
                IF k = parse_key(e[1]) THEN e[2] ELSE front[k]]

\* Deserialize of the inner type: the primitive, String, or the container.
deserialize_inner(t, json) ==
    IF t.fam = "num"
    THEN IF json.j # "num" THEN Err(ParseError("invalid type"))
         ELSE IF ~InType(t.ty, json.n) THEN Err(ParseError("out of range"))
         ELSE Ok(json.n)
    ELSE IF t.fam = "str"
    THEN IF json.j # "str" THEN Err(ParseError("invalid type")) ELSE Ok(json.s)
    ELSE IF t.shape \in MapShapes
    THEN IF json.j # "obj" THEN Err(ParseError("invalid type"))
         ELSE IF \E i \in DOMAIN json.entries : parse_key(json.entries[i][1]) = 0
         THEN Err(ParseError("invalid key"))
         ELSE Ok(collect_map(json.entries))
    ELSE IF json.j # "arr" THEN Err(ParseError("invalid type"))
    ELSE IF t.shape \in SetShapes THEN Ok({json.items[i] : i \in DOMAIN json.items})
    ELSE Ok(json.items)

\* deserialize reporting a failed parse as if validation had failed.
deserialize_masking(t, parsed, iter) ==
    IF ~parsed.ok THEN Err([variant |-> "Custom", fields |-> parsed.err.fields])
    ELSE LET r == new(t, parsed.val, iter)
         IN IF r.ok THEN r ELSE Err(custom(t, r.err))

\* deserialize trimming a parsed string before it validates and wraps it.
deserialize_trimming(t, parsed, iter) ==
    IF ~parsed.ok THEN parsed
    ELSE LET p == IF t.fam = "str" THEN trim(parsed.val) ELSE parsed.val
             r == new(t, p, iter)
         IN IF r.ok THEN r ELSE Err(custom(t, r.err))

\* deserialize bringing an out-of-range number to the nearer bound.
deserialize_clamping(t, parsed, iter) ==
    IF ~parsed.ok THEN parsed
    ELSE LET r == new(t, parsed.val, iter)
         IN IF r.ok THEN r
            ELSE IF t.fam = "num" /\ t.MIN <= t.MAX
            THEN Ok(Wrap(IF r.err.variant = "Low" THEN t.MIN ELSE t.MAX))
            ELSE Err(custom(t, r.err))

\* deserialize wrapping the parsed value without Self::new.
deserialize_unvalidated(t, parsed, iter) ==
    IF ~parsed.ok THEN parsed ELSE Ok(Wrap(parsed.val))

\* parsed is what deserializing the inner type returned; a parsed value goes
\* through Self::new and a validation error is wrapped by custom.
deserialize(t, parsed, iter) ==
    IF ~parsed.ok THEN parsed
    ELSE LET r == new(t, parsed.val, iter)
         IN IF r.ok THEN r ELSE Err(custom(t, r.err))

\* derive(PartialEq): the wrappers are equal when their fields are.
eq(self, other) == self.inner = other.inner

\* The order of two items of a container: integers, or the (key, value) pairs
\* of a map.
item_lt(shape, x, y) ==
    IF shape \in MapShapes THEN x[1] < y[1] \/ (x[1] = y[1] /\ x[2] < y[2])
    ELSE x < y

\* Iterator::partial_cmp(..) == Some(Less): the lexicographic order of two
\* iterations.
RECURSIVE iter_lt(_, _, _)
iter_lt(shape, a, b) ==
    IF Len(b) = 0 THEN FALSE
    ELSE IF Len(a) = 0 THEN TRUE
    ELSE IF item_lt(shape, a[1], b[1]) THEN TRUE
    ELSE IF item_lt(shape, b[1], a[1]) THEN FALSE
    ELSE iter_lt(shape, Tail(a), Tail(b))

\* The containers that implement PartialOrd, Ord and Hash; the hashed ones
\* implement none of them.
OrdShapes == SeqShapes \cup {"BTreeSet", "BTreeMap"}

\* PartialOrd of the inner container: its iterations compared.
container_lt(shape, a, b) ==
    iter_lt(shape, CHOOSE i \in into_iter(shape, a) : TRUE, CHOOSE i \in into_iter(shape, b) : TRUE)

\* Hash of the inner container: what it writes to the hasher, its length and
\* then its items in iteration order.
container_hash(shape, c) ==
    <<Len(CHOOSE i \in into_iter(shape, c) : TRUE)>> \o (CHOOSE i \in into_iter(shape, c) : TRUE)

\* lt comparing the numbers of elements.
lt_by_len(t, self, other) ==
    Len(CHOOSE i \in into_iter(t.shape, self.inner) : TRUE)
        < Len(CHOOSE i \in into_iter(t.shape, other.inner) : TRUE)

\* derive(PartialOrd): the single field compared with the other's.
lt(t, self, other) == container_lt(t.shape, self.inner, other.inner)

\* derive(Hash): the single field hashed.
hash(t, self) == container_hash(t.shape, self.inner)

\* External representations handed to the deserializer.
JsonInputs(t) ==
    IF t.fam = "num"
    THEN {JNum(n) : n \in PrimVals(t.ty) \cup {TypeMin(t.ty) - 1, TypeMax(t.ty) + 1}}
            \cup {JStr(<<>>)}
    ELSE IF t.fam = "str" THEN {JStr(s) : s \in Strings} \cup {JNum(0)}
    ELSE IF t.shape \in MapShapes
    THEN {JObj(e) : e \in UNION {[1..k -> {<<key, v>> : key \in {fmt_int(n) : n \in Elems} \cup {<<"a">>}, v \in Elems}] : k \in 0..MaxLen}}
            \cup {JArr(<<>>)}
    ELSE {JArr(a) : a \in UNION {[1..k -> Elems] : k \in 0..MaxLen}} \cup {JObj(<<>>)}

\* ------------------------------------------------------------- the client

VARIABLES
    T,              \* the wrapper type in use
    wrapper,        \* the wrapper the client holds, or None
    last,           \* the last call: operation, argument and what it returned
    usedUnchecked   \* whether new_unchecked has been called so far

vars == <<T, wrapper, last, usedUnchecked>>

\* The argument sets, tabulated once per type.
InputsOf == [t \in Types |-> Inputs(t)]

JsonInputsOf == [t \in Types |-> JsonInputs(t)]

Init ==
    /\ T \in Types
    /\ wrapper = None
    /\ last = [op |-> "none"]
    /\ usedUnchecked = FALSE

\* The client holds one wrapper at a time: it constructs when it holds none.
\* Type::new(v): the client keeps the wrapper of an Ok result.
New ==
    \E v \in InputsOf[T] : \E iter \in Iterations(T, v) :
        LET r == new(T, v, iter) IN
        /\ wrapper = None
        /\ wrapper' = IF r.ok THEN r.val ELSE wrapper
        /\ last' = [op |-> "new", input |-> v, result |-> r]
        /\ UNCHANGED <<T, usedUnchecked>>

\* unsafe { Type::new_unchecked(v) }
NewUnchecked ==
    \E v \in InputsOf[T] :
        LET r == new_unchecked(T, v) IN
        /\ wrapper = None
        /\ wrapper' = IF "inner" \in DOMAIN r THEN r ELSE wrapper
        /\ last' = [op |-> "new_unchecked", input |-> v, result |-> r]
        /\ usedUnchecked' = TRUE
        /\ UNCHANGED T

\* serde_json::from_value(json)
Deserialize ==
    \E json \in JsonInputsOf[T] :
        LET parsed == deserialize_inner(T, json) IN
        \E iter \in (IF parsed.ok THEN Iterations(T, parsed.val) ELSE {<<>>}) :
            LET r == deserialize(T, parsed, iter) IN
            /\ wrapper = None
            /\ wrapper' = IF r.ok THEN r.val ELSE wrapper
            /\ last' = [op |-> "deserialize", input |-> json, result |-> r]
            /\ UNCHANGED <<T, usedUnchecked>>

\* wrapper.into_inner(): the wrapper is consumed.
IntoInner ==
    /\ wrapper # None
    /\ wrapper' = None
    /\ last' = [op |-> "into_inner", input |-> wrapper, result |-> into_inner(T, wrapper)]
    /\ UNCHANGED <<T, usedUnchecked>>

\* wrapper.clone() (a copy for the Copy types); the client keeps the original.
Clone ==
    /\ wrapper # None
    /\ last' = [op |-> "clone", input |-> wrapper, result |-> clone(wrapper)]
    /\ UNCHANGED <<T, wrapper, usedUnchecked>>

\* serde_json::to_value(&wrapper)
Serialize ==
    /\ wrapper # None
    /\ \E order \in Iterations(T, wrapper.inner) :
        last' = [op |-> "serialize", input |-> wrapper, result |-> serialize(T, wrapper, order)]
    /\ UNCHANGED <<T, wrapper, usedUnchecked>>

\* wrapper.to_string()
Display ==
    /\ wrapper # None
    /\ T.fam # "coll"
    /\ last' = [op |-> "display", input |-> wrapper, result |-> fmt(T, wrapper)]
    /\ UNCHANGED <<T, wrapper, usedUnchecked>>

\* err.to_string() on the error a failed new returned; value is what new was
\* given.
DisplayError ==
    /\ last.op = "new"
    /\ ~last.result.ok
    /\ last' = [op |-> "display_error", input |-> last.result.err, value |-> last.input,
                result |-> fmt_error(T, last.result.err)]
    /\ UNCHANGED <<T, wrapper, usedUnchecked>>

\* serde_json::from_str(&serialized): what the last call serialized is read
\* back while the client still holds the wrapper it came from.
DeserializeSerialized ==
    /\ last.op = "serialize"
    /\ LET parsed == deserialize_inner(T, last.result) IN
       \E iter \in (IF parsed.ok THEN Iterations(T, parsed.val) ELSE {<<>>}) :
            last' = [op |-> "round_trip", input |-> last.result,
                     result |-> deserialize(T, parsed, iter)]
    /\ UNCHANGED <<T, wrapper, usedUnchecked>>

\* wrapper == Type::new(v).unwrap(). A comparison right after a comparison
\* reaches no state that one after any other call does not, and is left out.
Compare ==
    /\ wrapper # None
    /\ last.op # "eq"
    /\ \E v \in InputsOf[T] : \E iter \in Iterations(T, v) :
        LET r == new(T, v, iter) IN
        /\ r.ok
        /\ last' = [op |-> "eq", input |-> <<wrapper, r.val>>, result |-> eq(wrapper, r.val)]
    /\ UNCHANGED <<T, wrapper, usedUnchecked>>

\* wrapper < Type::new(v).unwrap(), for a non-empty collection whose container
\* is ordered. As for Compare, it does not follow another comparison.
CompareOrder ==
    /\ wrapper # None
    /\ T.fam = "coll"
    /\ T.shape \in OrdShapes
    /\ last.op \notin {"eq", "lt"}
    /\ \E v \in InputsOf[T] : \E iter \in Iterations(T, v) :
        LET r == new(T, v, iter) IN
        /\ r.ok
        /\ last' = [op |-> "lt", input |-> <<wrapper, r.val>>, result |-> lt(T, wrapper, r.val)]
    /\ UNCHANGED <<T, wrapper, usedUnchecked>>

\* wrapper.hash(&mut hasher), for a non-empty collection whose container is
\* hashable.
Hash ==
    /\ wrapper # None
    /\ T.fam = "coll"
    /\ T.shape \in OrdShapes
    /\ last' = [op |-> "hash", input |-> wrapper, result |-> hash(T, wrapper)]
    /\ UNCHANGED <<T, wrapper, usedUnchecked>>

Next ==
    \/ New
    \/ NewUnchecked
    \/ Deserialize
    \/ IntoInner
    \/ Clone
    \/ Serialize
    \/ Display
    \/ DisplayError
    \/ DeserializeSerialized
    \/ Compare
    \/ CompareOrder
    \/ Hash

Spec == Init /\ [][Next]_vars

\* ----------------------------------------------------------- bounded floats

\* A value of f32 or f64: NaN, an infinity, or a finite number.
NaN == [k |-> "nan", v |-> 0]

NegInf == [k |-> "ninf", v |-> 0]

PosInf == [k |-> "pinf", v |-> 0]

Fin(n) == [k |-> "fin", v |-> n]

FloatPrims == {"f32", "f64"}

FloatVals == {NaN, NegInf, PosInf} \cup {Fin(n) : n \in -MaxFloat..MaxFloat}

\* The $min and $max a type is generated with: numbers and infinities, in
\* either order.
FloatBounds == FloatVals \ {NaN}

\* a > b of the primitive floats (IEEE 754): false whenever one side is NaN.
float_gt(a, b) ==
    IF a.k = "nan" \/ b.k = "nan" THEN FALSE
    ELSE IF a.k = "pinf" THEN b.k # "pinf"
    ELSE IF a.k = "ninf" THEN FALSE
    ELSE IF b.k = "ninf" THEN TRUE
    ELSE IF b.k = "pinf" THEN FALSE
    ELSE a.v > b.v

BoundedFloat_new(MIN, MAX, num) ==
    IF float_gt(MIN, num) THEN Err(Low(MIN, MAX, num))
    ELSE IF float_gt(num, MAX) THEN Err(High(MIN, MAX, num))
    ELSE Ok(Wrap(num))

BoundedFloat_new_unchecked(MIN, MAX, num) == Wrap(num)

BoundedFloat_into_inner(self) == self.inner

\* The types generate_bounded_float! produces.
FloatTypes ==
    {[fam |-> "float", ty |-> ty, MIN |-> mn, MAX |-> mx] :
        ty \in FloatPrims, mn \in FloatBounds, mx \in FloatBounds}

\* The client of a bounded float type; it holds one wrapper at a time.
FloatInit ==
    /\ T \in FloatTypes
    /\ wrapper = None
    /\ last = [op |-> "none"]
    /\ usedUnchecked = FALSE

\* $name::new(num)
FloatNew ==
    \E num \in FloatVals :
        LET r == BoundedFloat_new(T.MIN, T.MAX, num) IN
        /\ wrapper = None
        /\ wrapper' = IF r.ok THEN r.val ELSE wrapper
        /\ last' = [op |-> "new", input |-> num, result |-> r]
        /\ UNCHANGED <<T, usedUnchecked>>

\* unsafe { $name::new_unchecked(num) }
FloatNewUnchecked ==
    \E num \in FloatVals :
        /\ wrapper = None
        /\ wrapper' = BoundedFloat_new_unchecked(T.MIN, T.MAX, num)
        /\ last' = [op |-> "new_unchecked", input |-> num, result |-> wrapper']
        /\ usedUnchecked' = TRUE
        /\ UNCHANGED T

\* wrapper.into_inner(); the type is Copy, the client lets go of the wrapper.
FloatIntoInner ==
    /\ wrapper # None
    /\ wrapper' = None
    /\ last' = [op |-> "into_inner", input |-> wrapper, result |-> BoundedFloat_into_inner(wrapper)]
    /\ UNCHANGED <<T, usedUnchecked>>

FloatNext ==
    \/ FloatNew
    \/ FloatNewUnchecked
    \/ FloatIntoInner

FloatSpec == FloatInit /\ [][FloatNext]_vars

\* ------------------------------------------------------------------ repeat

\* A range that includes its end, 0..=times.
Range_has_next_inclusive(start, times) == start <= times

\* The range 0..times asked for its next index: it yields start while
\* start < times.
Range_has_next(start, times) == start < times

\* The client of repeat. The action it passes records the index it is called
\* with and returns. last is the call of repeat: its argument, the position of
\* the range, the indices the action has been called with so far, and whether
\* repeat has returned.
RepeatInit ==
    /\ T = [fam |-> "repeat"]
    /\ wrapper = None
    /\ last = [op |-> "none"]
    /\ usedUnchecked = FALSE

\* repeat(times, action): the call is entered, the range starts at 0.
RepeatCall ==
    /\ IF last.op = "none" THEN TRUE ELSE last.done
    /\ \E times \in 0..MaxTimes :
        last' = [op |-> "repeat", input |-> times, index |-> 0, calls |-> <<>>, done |-> FALSE]
    /\ UNCHANGED <<T, wrapper, usedUnchecked>>

\* One turn of the for loop: the range yields index and action(index) runs.
RepeatStep ==
    /\ last.op = "repeat"
    /\ ~last.done
    /\ Range_has_next(last.index, last.input)
    /\ last' = [last EXCEPT !.index = @ + 1, !.calls = Append(@, last.index)]
    /\ UNCHANGED <<T, wrapper, usedUnchecked>>

\* The range is exhausted: the loop ends and repeat returns.
RepeatReturn ==
    /\ last.op = "repeat"
    /\ ~last.done
    /\ ~Range_has_next(last.index, last.input)
    /\ last' = [last EXCEPT !.done = TRUE]
    /\ UNCHANGED <<T, wrapper, usedUnchecked>>

RepeatNext ==
    \/ RepeatCall
    \/ RepeatStep
    \/ RepeatReturn

\* A call that was entered keeps running: the loop body and the return are
\* steps of the one thread that executes repeat.
RepeatSpec ==
    /\ RepeatInit
    /\ [][RepeatNext]_vars
    /\ WF_vars(RepeatStep)
    /\ WF_vars(RepeatReturn)

\* --------------------------------------------------- take_if and take_unless

Some(x) == [some |-> x]

\* The values the scope functions are called on.
ScopeVals == 0..MaxScopeVal

\* A predicate is given by the set of values it holds for.
Predicates == SUBSET ScopeVals

\* predicate(&self)
predicate(p, self) == self \in p

\* take_if keeping the value whatever the predicate says.
TakeIf_take_if_always(self, p) == Some(self)

TakeIf_take_if(self, p) == IF predicate(p, self) THEN Some(self) ELSE None

TakeUnless_take_unless(self, p) == IF ~predicate(p, self) THEN Some(self) ELSE None

\* The client of take_if and take_unless.
TakeInit ==
    /\ T = [fam |-> "take"]
    /\ wrapper = None
    /\ last = [op |-> "none"]
    /\ usedUnchecked = FALSE

\* value.take_if(predicate)
TakeIf ==
    /\ \E v \in ScopeVals : \E p \in Predicates :
        last' = [op |-> "take_if", input |-> <<v, p>>, result |-> TakeIf_take_if(v, p)]
    /\ UNCHANGED <<T, wrapper, usedUnchecked>>

\* value.take_unless(predicate)
TakeUnless ==
    /\ \E v \in ScopeVals : \E p \in Predicates :
        last' = [op |-> "take_unless", input |-> <<v, p>>, result |-> TakeUnless_take_unless(v, p)]
    /\ UNCHANGED <<T, wrapper, usedUnchecked>>

TakeNext ==
    \/ TakeIf
    \/ TakeUnless

TakeSpec == TakeInit /\ [][TakeNext]_vars

\* -------------------------------------------------------------------- also

\* The blocks the client passes: |v| *v += 1, |v| *v *= 2, |v| *v = 0, and a
\* block that only looks at the value.
Blocks == {"increment", "double", "reset", "inspect"}

\* block(&mut self): the value the block leaves behind.
block(b, self) ==
    IF b = "increment" THEN self + 1
    ELSE IF b = "double" THEN 2 * self
    ELSE IF b = "reset" THEN 0
    ELSE self

\* also returning the value it was given and dropping what the block did.
Also_also_discarding(self, b) == [runs |-> <<self>>, ret |-> self, source |-> self]

\* also(mut self, block): self is the callee's own copy of the receiver. runs
\* lists what the block was called on, ret is the value returned, source what
\* the binding the receiver was copied from holds afterwards.
Also_also(self, b) == [runs |-> <<self>>, ret |-> block(b, self), source |-> self]

\* The client of also: value is its own binding of a Copy value, receiver the
\* value the chain has reached, blocks and runs the calls made so far.
AlsoInit ==
    /\ T = [fam |-> "also"]
    /\ wrapper = None
    /\ last = [op |-> "none"]
    /\ usedUnchecked = FALSE

\* let value = v; the chain starts from a copy of it.
AlsoBind ==
    /\ \E v \in ScopeVals :
        last' = [op |-> "also", origin |-> v, value |-> v, receiver |-> v,
                 blocks |-> <<>>, runs |-> <<>>]
    /\ UNCHANGED <<T, wrapper, usedUnchecked>>

\* receiver.also(block): the next call of the chain.
AlsoCall ==
    /\ last.op = "also"
    /\ Len(last.blocks) < MaxChain
    /\ \E b \in Blocks :
        LET r == Also_also(last.receiver, b) IN
        last' = [last EXCEPT !.receiver = r.ret, !.blocks = Append(@, b),
                             !.runs = Append(@, r.runs),
                             !.value = IF Len(last.blocks) = 0 THEN r.source ELSE @]
    /\ UNCHANGED <<T, wrapper, usedUnchecked>>

AlsoNext ==
    \/ AlsoBind
    \/ AlsoCall

AlsoSpec == AlsoInit /\ [][AlsoNext]_vars

\* ------------------------------------------------------------- trim_margin

\* An ordinary character, a blank, the default margin and the line feed.
MarginChars == {"a", " ", "|", "\n"}

Texts == UNION {[1..k -> MarginChars] : k \in 0..MaxTextLen}

\* Margin prefixes: the empty one, the default one and another character.
Prefixes == {<<>>, <<"|">>, <<"a">>}

\* The pieces of s between its line feeds.
RECURSIVE split_lines(_)
split_lines(s) ==
    IF \A i \in 1..Len(s) : s[i] # "\n" THEN <<s>>
    ELSE LET i == CHOOSE k \in 1..Len(s) : s[k] = "\n" /\ \A j \in 1..(k - 1) : s[j] # "\n"
         IN <<SubSeq(s, 1, i - 1)>> \o split_lines(SubSeq(s, i + 1, Len(s)))

\* str::lines: the lines of s without their line feeds; a line feed at the
\* very end opens no further line.
lines(s) ==
    LET pieces == split_lines(s)
    IN IF is_empty(pieces[Len(pieces)]) THEN SubSeq(pieces, 1, Len(pieces) - 1) ELSE pieces

\* strip_prefix leaving a line that does not match as it is.
strip_prefix_lenient(line, prefix) ==
    IF Len(prefix) <= Len(line) /\ SubSeq(line, 1, Len(prefix)) = prefix
    THEN Some(SubSeq(line, Len(prefix) + 1, Len(line)))
    ELSE Some(line)

\* str::strip_prefix
strip_prefix(line, prefix) ==
    IF Len(prefix) <= Len(line) /\ SubSeq(line, 1, Len(prefix)) = prefix
    THEN Some(SubSeq(line, Len(prefix) + 1, Len(line)))
    ELSE None

\* iter is what is left of the lines once a first empty line has been taken;
\* the filter then peeks at iter itself, which it never advances.
remove_empty_lines(ls) ==
    LET iter == IF Len(ls) > 0 /\ is_empty(ls[1]) THEN Tail(ls) ELSE ls
        kept(line) == ~(Len(iter) = 0 /\ is_empty(line))
    IN SelectSeq(iter, kept)

\* The for_each of trim_margin_with: the stripped lines, for the lines that
\* carry the prefix.
RECURSIVE processed_lines(_, _)
processed_lines(ls, prefix) ==
    IF Len(ls) = 0 THEN <<>>
    ELSE LET stripped == strip_prefix(ls[1], prefix)
         IN (IF stripped # None THEN <<stripped.some>> ELSE <<>>)
                \o processed_lines(Tail(ls), prefix)

RECURSIVE join(_, _)
join(ls, sep) ==
    IF Len(ls) = 0 THEN <<>>
    ELSE IF Len(ls) = 1 THEN ls[1]
    ELSE ls[1] \o sep \o join(Tail(ls), sep)

trim_margin_with(s, margin_prefix) ==
    LET ls == [i \in 1..Len(lines(s)) |-> trim_start(lines(s)[i])]
    IN IF Len(ls) = 0 THEN <<>>
       ELSE IF Len(ls) = 1
       THEN (IF strip_prefix(ls[1], margin_prefix) # None
             THEN strip_prefix(ls[1], margin_prefix).some ELSE ls[1])
       ELSE join(processed_lines(remove_empty_lines(ls), margin_prefix), <<"\n">>)

trim_margin(s) == trim_margin_with(s, <<"|">>)

\* The client has a text and a margin prefix at hand and calls one of the two
\* methods on them.
MarginInit ==
    /\ T = [fam |-> "margin"]
    /\ wrapper = None
    /\ last \in {[op |-> "input", text |-> s, prefix |-> p] : s \in Texts, p \in Prefixes}
    /\ usedUnchecked = FALSE

\* text.trim_margin_with(prefix)
TrimMarginWith ==
    /\ last.op = "input"
    /\ last' = [op |-> "trim_margin_with", text |-> last.text, prefix |-> last.prefix,
                result |-> trim_margin_with(last.text, last.prefix)]
    /\ UNCHANGED <<T, wrapper, usedUnchecked>>

\* text.trim_margin()
TrimMargin ==
    /\ last.op = "input"
    /\ last' = [op |-> "trim_margin", text |-> last.text, prefix |-> <<"|">>,
                result |-> trim_margin(last.text)]
    /\ UNCHANGED <<T, wrapper, usedUnchecked>>

MarginNext ==
    \/ TrimMarginWith
    \/ TrimMargin

MarginSpec == MarginInit /\ [][MarginNext]_vars

\* ------------------------------------------------------------------ claims

IsNum == T.fam = "num"

IsStr == T.fam = "str"

IsColl == T.fam = "coll"

NewOnNum == last.op = "new" /\ IsNum

\* C1 (as stated): on a bounded integer, new(v) fails with Low when v < MIN,
\* fails with High when v > MAX, and succeeds with a wrapper of v when
\* MIN <= v <= MAX.
C1_LowHighOk_AsStated ==
    NewOnNum =>
        /\ (last.input < T.MIN => ~last.result.ok /\ last.result.err.variant = "Low")
        /\ (last.input > T.MAX => ~last.result.ok /\ last.result.err.variant = "High")
        /\ (T.MIN <= last.input /\ last.input <= T.MAX =>
                last.result.ok /\ last.result.val = Wrap(last.input))

\* C1 (amended): on a bounded integer, new(v) fails with Low when v < MIN, fails
\* with High when v > MAX and v >= MIN, and succeeds with a wrapper of v when
\* MIN <= v <= MAX.
C1_LowHighOk ==
    NewOnNum =>
        /\ (last.input < T.MIN => ~last.result.ok /\ last.result.err.variant = "Low")
        /\ (last.input > T.MAX /\ last.input >= T.MIN =>
                ~last.result.ok /\ last.result.err.variant = "High")
        /\ (T.MIN <= last.input /\ last.input <= T.MAX =>
                last.result.ok /\ last.result.val = Wrap(last.input))

\* A value above the upper bound of a proper range was rejected as High.
C1_Witness ==
    /\ NewOnNum
    /\ T.MIN < T.MAX
    /\ last.input > T.MAX
    /\ ~last.result.ok
    /\ last.result.err.variant = "High"

\* C2: whenever new(v) fails on a bounded integer, the error carries exactly
\* the triple (MIN, MAX, v), in that order.
C2_ErrorTriple ==
    NewOnNum /\ ~last.result.ok =>
        /\ last.result.err.variant \in {"Low", "High"}
        /\ last.result.err.fields = <<T.MIN, T.MAX, last.input>>

\* The spec's scenario at this scale: <-1, 1>::new(127) is High(-1, 1, 127).
C2_Witness ==
    /\ NewOnNum
    /\ T.ty = "i8"
    /\ last.input = 127
    /\ last.result = Err([variant |-> "High", fields |-> <<-1, 1, 127>>])

\* C3: for MIN <= v <= MAX, new(v) succeeds and into_inner() of the result is
\* v; whenever new(v) succeeds, v is in range and the inner value is v (an
\* out-of-range input is rejected, never clamped).
C3_RangeRoundTrip ==
    NewOnNum =>
        /\ (T.MIN <= last.input /\ last.input <= T.MAX => last.result.ok)
        /\ (last.result.ok =>
                /\ BoundedNum_into_inner(last.result.val) = last.input
                /\ T.MIN <= last.input /\ last.input <= T.MAX)

\* new(MIN) succeeded on a proper range and unwraps to MIN.
C3_Witness ==
    /\ NewOnNum
    /\ T.MIN < T.MAX
    /\ last.input = T.MIN
    /\ last.result.ok
    /\ BoundedNum_into_inner(last.result.val) = T.MIN

\* The invariant of each family, stated on the inner value.
Blanks == {" ", "\t"}

SatisfiesInvariant(t, v) ==
    IF t.fam = "num" THEN t.MIN <= v /\ v <= t.MAX
    ELSE IF t.fam = "str"
    THEN IF t.validator = "NonEmptyValidator" THEN Len(v) >= 1
         ELSE \E i \in 1..Len(v) : v[i] \notin Blanks
    ELSE IF t.shape \in SeqShapes THEN Len(v) >= 1
    ELSE IF t.shape \in SetShapes THEN v # {}
    ELSE DOMAIN v # {}

\* The wrappers alive in a state: the one the client holds, and the one the
\* last call returned.
LiveWrappers ==
    (IF wrapper # None THEN {wrapper} ELSE {})
        \cup (IF last.op \in {"new", "deserialize", "round_trip"} /\ last.result.ok THEN {last.result.val}
              ELSE IF last.op = "clone" THEN {last.result}
              ELSE {})

AllLiveValid ==
    ~usedUnchecked => \A w \in LiveWrappers : SatisfiesInvariant(T, w.inner)

\* A step of an operation on an existing instance leaves that instance as it
\* was; into_inner hands out its inner value and ends it.
InstanceUnchanged ==
    /\ last'.op \in {"clone", "serialize", "display", "eq", "lt", "hash"} => wrapper' = wrapper
    /\ last'.op = "clone" => last'.result = wrapper
    /\ last'.op = "into_inner" => last'.result = wrapper.inner /\ wrapper' = None

\* C4: as long as new_unchecked has not been called, every live wrapper
\* satisfies the invariant of its family (MIN <= v <= MAX, the validator accepts
\* the string, the container has an element), and no operation on an existing
\* instance changes its inner value.
C4_InvariantKept == AllLiveValid /\ [][AllLiveValid' /\ InstanceUnchanged]_vars

\* A deserialized wrapper is held and new_unchecked was never called.
C4_Witness ==
    /\ ~usedUnchecked
    /\ wrapper # None
    /\ last.op = "deserialize"
    /\ last.result.ok

\* C5: new_unchecked(v) returns a wrapper for every v (no error, no panic),
\* also for a v that violates the invariant, and into_inner() of it is v.
C5_UncheckedNeverFails ==
    last.op = "new_unchecked" =>
        /\ DOMAIN last.result = {"inner"}
        /\ into_inner(T, last.result) = last.input

\* new_unchecked was given a value that violates the invariant.
C5_Witness ==
    /\ last.op = "new_unchecked"
    /\ ~SatisfiesInvariant(T, last.input)
    /\ wrapper = last.result
NewOnStr(validator) == last.op = "new" /\ IsStr /\ T.validator = validator

OnlyBlanks(s) == \A i \in 1..Len(s) : s[i] \in Blanks

\* C6: NonEmptyString::new(s) fails, with StringContentError::Empty, exactly when
\* s has no character; a string of one or more characters is accepted, also
\* when all of them are whitespace.
C6_NonEmptyIffHasChar ==
    NewOnStr("NonEmptyValidator") =>
        /\ (Len(last.input) = 0 => last.result = Err([variant |-> "Empty", fields |-> <<>>]))
        /\ (Len(last.input) >= 1 => last.result.ok)

\* NonEmptyString::new accepted a string made of whitespace only.
C6_Witness ==
    /\ NewOnStr("NonEmptyValidator")
    /\ last.input = <<" ", "\t", " ">>
    /\ last.result.ok

\* C7: NonBlankString::new(s) fails exactly when s consists of whitespace only;
\* an s with a non-whitespace character is accepted, also between whitespace.
C7_NonBlankIffHasNonBlank ==
    NewOnStr("NonBlankValidator") => (~last.result.ok <=> OnlyBlanks(last.input))

\* NonBlankString::new accepted a character with whitespace on both sides.
C7_Witness ==
    /\ NewOnStr("NonBlankValidator")
    /\ last.input = <<"\t", "a", " ">>
    /\ last.result.ok

\* C8: every rejection by NonBlankString::new(s) is Blank(s) with the original,
\* untrimmed s, the empty string included (Blank(""), never Empty); "" is
\* rejected by both validators, "   " is accepted by non-empty and rejected by
\* non-blank, "a" is accepted by both.
C8_BlankIndependent ==
    last.op = "new" /\ IsStr =>
        /\ (T.validator = "NonBlankValidator" /\ ~last.result.ok =>
                /\ last.result.err.variant = "Blank"
                /\ last.result.err.fields = <<last.input>>)
        /\ (last.input = <<>> => ~last.result.ok)
        /\ (last.input = <<" ", " ", " ">> =>
                (last.result.ok <=> T.validator = "NonEmptyValidator"))
        /\ (last.input = <<"a">> => last.result.ok)

\* NonBlankString::new("") was rejected as Blank("").
C8_Witness ==
    /\ NewOnStr("NonBlankValidator")
    /\ last.input = <<>>
    /\ last.result = Err([variant |-> "Blank", fields |-> << <<>> >>])

\* C9: when new(s) succeeds on either string validator, into_inner() of the
\* wrapper is s, character for character.
C9_StringUnmodified ==
    last.op = "new" /\ IsStr /\ last.result.ok =>
        ValidatedString_into_inner(last.result.val) = last.input

\* A string with leading and trailing whitespace was accepted.
C9_Witness ==
    /\ last.op = "new"
    /\ IsStr
    /\ last.input = <<" ", "a", "\t">>
    /\ last.result.ok
    /\ wrapper = Wrap(<<" ", "a", "\t">>)

\* The number of elements or entries of a container.
Size(shape, c) ==
    IF shape \in SeqShapes THEN Len(c)
    ELSE IF shape \in SetShapes THEN Cardinality(c)
    ELSE Cardinality(DOMAIN c)

\* C10: for each of the seven container shapes, NonEmptyCollection::new(c)
\* fails, with SequenceContentError::Empty, exactly when c holds no element; a
\* container of exactly one element or entry is accepted.
C10_EmptyIffNoElement ==
    last.op = "new" /\ IsColl =>
        /\ (Size(T.shape, last.input) = 0 =>
                last.result = Err([variant |-> "Empty", fields |-> <<>>]))
        /\ (Size(T.shape, last.input) >= 1 => last.result.ok)

\* A hash map of exactly one entry was accepted.
C10_Witness ==
    /\ last.op = "new"
    /\ IsColl
    /\ T.shape = "HashMap"
    /\ Size(T.shape, last.input) = 1
    /\ last.result.ok

\* C11: when NonEmptyCollection::new(c) succeeds, into_inner() of the result is
\* a container identical to c (same elements, multiplicities and order), and
\* the wrapper the client then holds wraps c as it was given.
C11_ContainerUntouched ==
    last.op = "new" /\ IsColl /\ last.result.ok =>
        /\ NonEmptyCollection_into_inner(last.result.val) = last.input
        /\ wrapper = Wrap(last.input)

\* A Vec whose elements are not in ascending order was accepted and is held.
C11_Witness ==
    /\ last.op = "new"
    /\ IsColl
    /\ T.shape = "Vec"
    /\ last.input = <<2, 1>>
    /\ last.result.ok
    /\ wrapper = Wrap(<<2, 1>>)

\* The representations of an inner value on its own: the bare number, the bare
\* string, the array of a sequence in its order, an array holding each element
\* of a set once, an object holding each entry of a map once under its key.
BareRepresentation(t, v, json) ==
    IF t.fam = "num" THEN json = JNum(v)
    ELSE IF t.fam = "str" THEN json = JStr(v)
    ELSE IF t.shape \in SeqShapes THEN json = JArr(v)
    ELSE IF t.shape \in SetShapes
    THEN /\ DOMAIN json = {"j", "items"}
         /\ json.j = "arr"
         /\ Len(json.items) = Cardinality(v)
         /\ {json.items[i] : i \in DOMAIN json.items} = v
    ELSE /\ DOMAIN json = {"j", "entries"}
         /\ json.j = "obj"
         /\ Len(json.entries) = Cardinality(DOMAIN v)
         /\ \A k \in DOMAIN v : \E i \in DOMAIN json.entries : json.entries[i] = <<fmt_int(k), v[k]>>

\* C12: in all three families, serializing a wrapper gives exactly a
\* representation of its inner value alone (bare number, bare string, native
\* array or object), with no envelope, tag or extra field.
C12_SerializeTransparent ==
    last.op = "serialize" => BareRepresentation(T, last.input.inner, last.result)

\* A map of two entries was serialized.
C12_Witness ==
    /\ last.op = "serialize"
    /\ IsColl
    /\ T.shape \in MapShapes
    /\ Cardinality(DOMAIN last.input.inner) = 2
    /\ last.result.j = "obj"

\* The last call was a deserialization whose representation parsed to an inner
\* value.
DeserializeParsed == last.op = "deserialize" /\ deserialize_inner(T, last.input).ok

ParsedValue == deserialize_inner(T, last.input).val

\* C13: for a representation r that parses to an inner value p, deserialize(r)
\* succeeds exactly when new(p) succeeds and then yields the instance new(p)
\* yields; a p outside [MIN, MAX], an empty container and the empty string fail
\* to deserialize.
C13_OneGate ==
    DeserializeParsed =>
        /\ \A iter \in Iterations(T, ParsedValue) :
                LET r == new(T, ParsedValue, iter) IN
                /\ last.result.ok <=> r.ok
                /\ r.ok => last.result.val = r.val
        /\ IsNum /\ (ParsedValue < T.MIN \/ ParsedValue > T.MAX) => ~last.result.ok
        /\ IsColl /\ Size(T.shape, ParsedValue) = 0 => ~last.result.ok
        /\ IsStr /\ ParsedValue = <<>> => ~last.result.ok

\* The number just below a range of one value parsed and was refused.
C13_Witness ==
    /\ DeserializeParsed
    /\ IsNum
    /\ T.MIN = T.MAX
    /\ last.input = JNum(T.MIN - 1)
    /\ ~last.result.ok
    /\ wrapper = None

\* C14: for every instance x that came from a successful new (or from a
\* deserialization, which goes through new), deserializing what x serialized to
\* succeeds and gives an instance equal to x, whatever order a hashed set or map
\* was serialized in.
C14_SerdeRoundTrip ==
    last.op = "round_trip" /\ ~usedUnchecked =>
        /\ last.result.ok
        /\ eq(last.result.val, wrapper)

\* A hash map of two entries came back equal from a serialization that listed
\* its larger key first.
C14_Witness ==
    /\ last.op = "round_trip"
    /\ ~usedUnchecked
    /\ IsColl
    /\ T.shape = "HashMap"
    /\ Len(last.input.entries) = 2
    /\ last.input.entries[1][1] = fmt_int(2)
    /\ last.result.ok

\* The last call was a deserialization that parsed to an inner value which
\* validation refused.
DeserializeRefused == DeserializeParsed /\ ~last.result.ok

\* The error new returns for the parsed value (the same for every iteration
\* order of a container).
DirectError == new(T, ParsedValue, CHOOSE iter \in Iterations(T, ParsedValue) : TRUE).err

\* C15 (as stated): when validation fails during deserialization, the error
\* returned is the error new(parsed value) returns: the same variant (Low, High,
\* Empty, Blank) with the same fields.
C15_SameError_AsStated == DeserializeRefused => last.result.err = DirectError

\* C15 (amended): when validation fails during deserialization, the error
\* returned is the deserializer's custom error, different from every error of
\* parsing, and its message is the Display text of the error new(parsed value)
\* returns; no other validation error of the type has that text, so the
\* message tells the variant and its fields.
C15_CauseInMessage ==
    DeserializeRefused =>
        /\ last.result.err.variant = "Custom"
        /\ last.result.err.fields = <<fmt_error(T, DirectError)>>
        /\ \A v \in InputsOf[T] : \A iter \in Iterations(T, v) :
                LET r == new(T, v, iter) IN
                ~r.ok /\ fmt_error(T, r.err) = last.result.err.fields[1] => r.err = DirectError

\* A blank text was parsed and refused by the non-blank validator.
C15_Witness ==
    /\ DeserializeRefused
    /\ IsStr
    /\ T.validator = "NonBlankValidator"
    /\ last.input = JStr(<<" ", "\t">>)
    /\ DirectError = Blank(<<" ", "\t">>)
    /\ last.result.err.variant = "Custom"

\* part occurs in text at position i.
OccursAt(text, part, i) ==
    /\ i + Len(part) - 1 <= Len(text)
    /\ \A k \in 1..Len(part) : text[i + k - 1] = part[k]

\* The text opens with the value and goes on to the two bounds, min before max.
StatesValueAndRange(text, value, min, max) ==
    /\ OccursAt(text, fmt_int(value), 1)
    /\ \E i, j \in 1..Len(text) :
            /\ i > Len(fmt_int(value))
            /\ OccursAt(text, fmt_int(min), i)
            /\ j >= i + Len(fmt_int(min))
            /\ OccursAt(text, fmt_int(max), j)

\* The text quotes s between two grave accents.
QuotesText(text, s) ==
    \E i \in 1..Len(text) : OccursAt(text, <<Backtick>> \o s \o <<Backtick>>, i)

C17_ComparisonsDelegate ==
    IsColl =>
        /\ last.op = "eq" => (last.result <=> last.input[1].inner = last.input[2].inner)
        /\ last.op = "lt" =>
                (last.result <=> container_lt(T.shape, last.input[1].inner, last.input[2].inner))
        /\ last.op = "hash" => last.result = container_hash(T.shape, last.input.inner)

\* A Vec of two elements compared less than a Vec of one larger element.
C17_Witness ==
    /\ last.op = "lt"
    /\ T.shape = "Vec"
    /\ last.input = <<Wrap(<<1, 2>>), Wrap(<<2>>)>>
    /\ last.result = TRUE

DigitValue(d) == CHOOSE k \in 0..9 : Digits[k + 1] = d

RECURSIVE UnsignedValue(_)
UnsignedValue(ds) ==
    IF Len(ds) = 0 THEN 0
    ELSE 10 * UnsignedValue(SubSeq(ds, 1, Len(ds) - 1)) + DigitValue(ds[Len(ds)])

\* text is the plain decimal numeral of n: a minus sign for a negative n, then
\* the digits of its magnitude with no leading zero, and nothing else.
IsDecimalOf(text, n) ==
    LET body == IF n < 0 THEN Tail(text) ELSE text IN
    /\ n < 0 => Len(text) >= 2 /\ text[1] = "-"
    /\ Len(body) >= 1
    /\ \A i \in 1..Len(body) : \E k \in 1..10 : Digits[k] = body[i]
    /\ Len(body) > 1 => body[1] # "0"
    /\ UnsignedValue(body) = (IF n < 0 THEN -n ELSE n)

\* C18: Display of a validated string is the wrapped string verbatim, and
\* Display of a bounded integer is the plain decimal numeral of the wrapped
\* number, with no padding, separator or wrapper name.
C18_DisplayVerbatim ==
    last.op = "display" =>
        /\ IsStr => last.result = last.input.inner
        /\ IsNum => IsDecimalOf(last.result, last.input.inner)

\* The least i8 was displayed with its sign and three digits.
C18_Witness ==
    /\ last.op = "display"
    /\ IsNum
    /\ last.input = Wrap(-(2 ^ 7))
    /\ last.result = <<"-", "1", "2", "8">>

\* a <= b of the primitive floats: false whenever one side is NaN.
float_le(a, b) == a.k # "nan" /\ b.k # "nan" /\ ~float_gt(a, b)

\* C19 (as stated, its invariant): on a bounded float type, every instance
\* that new(v) returns satisfies MIN <= v <= MAX, for every float v, NaN and
\* the infinities included: new(v) is Ok only when v lies inside the inclusive
\* range.
C19_FloatInRange_AsStated ==
    last.op = "new" /\ T.fam = "float" /\ last.result.ok =>
        /\ float_le(T.MIN, last.result.val.inner)
        /\ float_le(last.result.val.inner, T.MAX)

\* new(NaN) returned an instance on a type whose range is proper and finite.
C19_Witness ==
    /\ last.op = "new"
    /\ T.fam = "float"
    /\ T.MIN = Fin(0)
    /\ T.MAX = Fin(1)
    /\ last.input = NaN
    /\ last.result = Ok(Wrap(NaN))
    /\ wrapper = Wrap(NaN)

InRepeat == last.op = "repeat"

\* The indices passed so far are 0, 1, 2, ... in this order, one call each.
CalledInOrder == \A i \in 1..Len(last.calls) : last.calls[i] = i - 1

\* C20: repeat(times, action) calls action with the indices 0, 1, ...,
\* times - 1 in increasing order, one call per index and never more than times
\* calls; when it returns, action has been called exactly times times (never,
\* for repeat(0, action)); and every call of repeat returns.
C20_RepeatCallsEachIndexOnce ==
    /\ [](InRepeat =>
            /\ CalledInOrder
            /\ Len(last.calls) <= last.input
            /\ last.done => Len(last.calls) = last.input)
    /\ ((InRepeat /\ ~last.done) ~> (InRepeat /\ last.done))

\* repeat(3, action) returned after the calls action(0), action(1), action(2).
C20_Witness ==
    /\ InRepeat
    /\ last.done
    /\ last.input = 3
    /\ last.calls = <<0, 1, 2>>

\* C21: v.take_if(p) is Some(v) when p(v) holds and None otherwise,
\* v.take_unless(p) is Some(v) when p(v) does not hold and None otherwise; of
\* the two, exactly one is Some, and it holds v unchanged.
C21_TakeComplement ==
    last.op \in {"take_if", "take_unless"} =>
        LET v == last.input[1]
            p == last.input[2]
            other == IF last.op = "take_if" THEN TakeUnless_take_unless(v, p)
                     ELSE TakeIf_take_if(v, p)
        IN /\ last.op = "take_if" => last.result = (IF v \in p THEN Some(v) ELSE None)
           /\ last.op = "take_unless" => last.result = (IF v \in p THEN None ELSE Some(v))
           /\ (last.result = None) # (other = None)
           /\ {last.result, other} = {Some(v), None}

\* take_if returned None for a value its predicate does not hold for, where
\* the predicate holds for other values.
C21_Witness ==
    /\ last.op = "take_if"
    /\ last.input = <<1, {0, 2}>>
    /\ last.result = None

\* What the first n blocks of the chain make of v, applied in order.
RECURSIVE AfterBlocks(_, _, _)
AfterBlocks(blocks, n, v) ==
    IF n = 0 THEN v ELSE block(blocks[n], AfterBlocks(blocks, n - 1, v))

\* C22: each call of also runs its block exactly once, on the value as the
\* blocks before it in the chain left it, and returns the value as the block
\* left it; the caller's own copy of the value stays as it was bound.
C22_AlsoRunsBlockOnce ==
    last.op = "also" =>
        /\ Len(last.runs) = Len(last.blocks)
        /\ \A i \in 1..Len(last.blocks) :
                last.runs[i] = <<AfterBlocks(last.blocks, i - 1, last.origin)>>
        /\ last.receiver = AfterBlocks(last.blocks, Len(last.blocks), last.origin)
        /\ last.value = last.origin

\* The chain 1.also(increment).also(double): the second block saw 2 and left 4,
\* and the caller still holds 1.
C22_Witness ==
    /\ last.op = "also"
    /\ last.origin = 1
    /\ last.blocks = <<"increment", "double">>
    /\ last.runs = << <<1>>, <<2>> >>
    /\ last.receiver = 4
    /\ last.value = 1

MarginCalled == last.op \in {"trim_margin_with", "trim_margin"}

\* The lines of the text the method was called on, as str::lines gives them.
InputLines == lines(last.text)

BeginsWith(line, prefix) ==
    Len(prefix) <= Len(line) /\ \A i \in 1..Len(prefix) : line[i] = prefix[i]

\* Of the lines ls, in their order, those that begin with prefix once their
\* leading whitespace is removed, each without that whitespace and without one
\* occurrence of prefix.
RECURSIVE MarginLines(_, _)
MarginLines(ls, prefix) ==
    IF Len(ls) = 0 THEN <<>>
    ELSE LET line == trim_start(ls[1])
         IN (IF BeginsWith(line, prefix)
             THEN <<SubSeq(line, Len(prefix) + 1, Len(line))>> ELSE <<>>)
                \o MarginLines(Tail(ls), prefix)

\* C23 (as stated): for an input of two or more lines, the result is the lines
\* that begin with prefix once their leading whitespace is removed, in their
\* order, each without that whitespace and one occurrence of prefix and
\* otherwise verbatim, joined by "\n"; the other lines are dropped.
C23_MarginLines_AsStated ==
    MarginCalled /\ Len(InputLines) >= 2 =>
        last.result = join(MarginLines(InputLines, last.prefix), <<"\n">>)

\* C23 (amended): as stated, for a prefix that is not empty.
C23_MarginLines ==
    MarginCalled /\ Len(InputLines) >= 2 /\ ~is_empty(last.prefix) =>
        last.result = join(MarginLines(InputLines, last.prefix), <<"\n">>)

\* Of two lines the one with the margin was kept with its trailing blank, and
\* the one without was dropped.
C23_Witness ==
    /\ last.op = "trim_margin_with"
    /\ last.text = <<"|", "a", " ", "\n", "a">>
    /\ last.prefix = <<"|">>
    /\ last.result = <<"a", " ">>

\* ls without the empty lines at its start.
RECURSIVE DropLeadingEmpty(_)
DropLeadingEmpty(ls) ==
    IF Len(ls) > 0 /\ is_empty(ls[1]) THEN DropLeadingEmpty(Tail(ls)) ELSE ls

\* ls without the empty lines at its end.
RECURSIVE DropTrailingEmpty(_)
DropTrailingEmpty(ls) ==
    IF Len(ls) > 0 /\ is_empty(ls[Len(ls)])
    THEN DropTrailingEmpty(SubSeq(ls, 1, Len(ls) - 1)) ELSE ls

\* C24 (as stated): for an input of two or more lines and any margin prefix,
\* the empty one included, the empty lines at the start and at the end of the
\* input do not appear in the result: the result is what the lines between
\* them give.
C24_NoEdgeEmptyLines_AsStated ==
    MarginCalled /\ Len(InputLines) >= 2 =>
        last.result = join(MarginLines(DropTrailingEmpty(DropLeadingEmpty(InputLines)),
                                       last.prefix), <<"\n">>)

\* With the empty prefix, the empty line at the end of "a\n\n" is in the
\* result, which ends with a line feed.
C24_Witness ==
    /\ last.op = "trim_margin_with"
    /\ last.text = <<"a", "\n", "\n">>
    /\ last.prefix = <<>>
    /\ last.result = <<"a", "\n">>

\* C25: on a bounded integer type declared with MIN > MAX, new(v) rejects every
\* v and so does deserialization, and no instance exists unless new_unchecked
\* made one; v < MIN is reported as Low also when v > MAX, and High is reported
\* only for v >= MIN.
C25_EmptyRangeRejectsAll ==
    IsNum /\ T.MIN > T.MAX =>
        /\ last.op \in {"new", "deserialize"} => ~last.result.ok
        /\ ~usedUnchecked => wrapper = None
        /\ last.op = "new" /\ last.input < T.MIN => last.result.err.variant = "Low"
        /\ last.op = "new" /\ last.result.err.variant = "High" => last.input >= T.MIN

\* On the type with MIN 1 and MAX -1, new(0) was rejected as Low although 0 is
\* also above MAX.
C25_Witness ==
    /\ last.op = "new"
    /\ IsNum
    /\ T.MIN = 1
    /\ T.MAX = -1
    /\ last.input = 0
    /\ last.result = Err(Low(1, -1, 0))
    /\ wrapper = None

\* C26: when the representation does not parse as the inner type (wrong JSON
\* type, integer outside the primitive's width, unreadable map key),
\* deserialize returns the parser's own error and nothing of validation; the
\* validation error is returned only for a value that parsed and that new
\* refuses.
C26_ParseBeforeValidate ==
    last.op = "deserialize" =>
        LET parsed == deserialize_inner(T, last.input) IN
        /\ ~parsed.ok => last.result = parsed /\ last.result.err.variant = "Parse"
        /\ ~last.result.ok /\ last.result.err.variant = "Custom" =>
                /\ parsed.ok
                /\ \A iter \in Iterations(T, parsed.val) : ~new(T, parsed.val, iter).ok

\* An integer one above the width of i8 was refused by the parser, on a type
\* whose MAX it also exceeds.
C26_Witness ==
    /\ last.op = "deserialize"
    /\ IsNum
    /\ T.ty = "i8"
    /\ T.MIN <= T.MAX
    /\ last.input = JNum(2 ^ 7)
    /\ last.result = Err(ParseError("out of range"))

\* C27: serialization does not check the invariant: every instance, one that
\* new_unchecked built from an invalid value included, serializes to the
\* representation of its inner value; reading that output back into the same
\* type succeeds exactly when the inner value satisfies the invariant.
C27_SerializeNeverChecks ==
    /\ last.op = "serialize" => BareRepresentation(T, last.input.inner, last.result)
    /\ last.op = "round_trip" =>
            /\ BareRepresentation(T, wrapper.inner, last.input)
            /\ last.result.ok <=> SatisfiesInvariant(T, wrapper.inner)

\* An empty Vec wrapped by new_unchecked was serialized to [] and did not read
\* back.
C27_Witness ==
    /\ last.op = "round_trip"
    /\ usedUnchecked
    /\ IsColl
    /\ T.shape = "Vec"
    /\ wrapper = Wrap(<<>>)
    /\ last.input = JArr(<<>>)
    /\ ~last.result.ok

\* C28: every string NonBlankString::new accepts, NonEmptyString::new accepts
\* too; the strings the non-empty validator accepts and the non-blank one
\* rejects are exactly those of one or more characters, all whitespace.
C28_NonBlankWithinNonEmpty ==
    last.op = "new" /\ IsStr =>
        LET nonBlank == NonBlankValidator_validate_and_create(last.input).ok
            nonEmpty == NonEmptyValidator_validate_and_create(last.input).ok
        IN /\ last.result.ok = (IF T.validator = "NonBlankValidator" THEN nonBlank ELSE nonEmpty)
           /\ nonBlank => nonEmpty
           /\ (nonEmpty /\ ~nonBlank) <=> (Len(last.input) >= 1 /\ OnlyBlanks(last.input))

\* NonEmptyString::new accepted a tab, which the non-blank validator rejects:
\* the inclusion is strict.
C28_Witness ==
    /\ NewOnStr("NonEmptyValidator")
    /\ last.input = <<"\t">>
    /\ last.result.ok
    /\ ~NonBlankValidator_validate_and_create(last.input).ok

====
